---- MODULE Spec2Model ----
(***************************************************************************)
(* Model of simulate.py: four bidding strategies gated by a roster rule,   *)
(* a UCB1 bandit choosing among them, and the round loop                   *)
(* warm_start_simulation.                                                  *)
(*                                                                         *)
(* Numbers.  Money amounts (bids, competitive bids) and the strategy       *)
(* factors are kept in hundredths: a factor 0.8 is 80, a bid of 0.8*value  *)
(* is value*80.  The bandit's mean rewards are exact rationals <<num,den>> *)
(* in lowest terms, computed by the formula of UCB1.update; the ucb score  *)
(* of select_arm is a fixed-point number in 1/10000 units.  The code keeps *)
(* the means as doubles built incrementally, so two arms with the same     *)
(* exact mean can hold doubles one ulp apart, depending on the order of    *)
(* their rewards; the model does not keep that order, and where the        *)
(* rounding can decide between two arms select_arm allows either.          *)
(* Lists are sequences; Python index k is position k+1.                    *)
(***************************************************************************)
EXTENDS Integers, Sequences, FiniteSets, TLC

\* ---------------------------------------------------------------- bounds
MaxPool == 5          \* longest player pool explored
MaxUpdates == 5       \* longest sequence of bandit calls explored (SpecUCB)

\* ------------------------------------------------------ program constants
initial_budget == 1000
DefaultEpsilon == 10             \* epsilon=0.1, in hundredths
DefaultExploitationFactor == 80  \* exploitation_factor=0.8
DefaultInitialBidFactor == 100   \* initial_bid_factor=1.0
ValueBasedFactor == 80           \* player_value * 0.8
LPFactor == 90                   \* 0.9 * player_value
ReactiveStep == 5                \* + 0.05

Roles == {"forward", "midfielder", "defender", "goalkeeper"}

role_requirements ==
  [r \in Roles |-> CASE r = "forward" -> 3
                     [] r = "midfielder" -> 4
                     [] r = "defender" -> 3
                     [] r = "goalkeeper" -> 1]

Kinds == {"EpsilonGreedy", "Reactive", "ValueBased", "OptimalTeamCompositionLP"}

\* Player records as generate_historical_data produces them:
\* value in 80..150, cost = int(value * u) with u in [0.6, 0.9], a role.
PlayerKinds ==
  { [value |-> 80,  cost |-> 48,  role |-> "goalkeeper"],
    [value |-> 150, cost |-> 135, role |-> "forward"] }

\* random.uniform(0.7, 1.2), in hundredths
CompFactors == {70, 80, 120}
\* random.random(), in hundredths
Draws == {0, 50}
\* random.uniform(0, player_value) / player_value, in hundredths
ExploreFractions == {0, 99}

\* Strategy lists handed to UCB1(strategies); the last is the module's own.
ArmLists ==
  { <<"ValueBased">>,
    <<"EpsilonGreedy", "Reactive">>,
    <<"ValueBased", "Reactive", "OptimalTeamCompositionLP">>,
    <<"EpsilonGreedy", "Reactive", "ValueBased", "OptimalTeamCompositionLP">> }

VARIABLES
  pc,                 \* where the program is
  players,            \* historical_data
  kinds,              \* the strategy classes the caller instantiates, in order
  ctor_args,          \* positional arguments after `players` in each constructor call
  entry,              \* "script": the module is run; "call": its classes and functions are called
  n_rounds,           \* argument of warm_start_simulation (None already resolved)
  strategies,         \* ucb1_model.strategies
  counts,             \* ucb1_model.counts
  values,             \* ucb1_model.values
  i,                  \* loop index of warm_start_simulation
  chosen_strategy_idx,\* local of the last round (-1 before the first)
  bid,                \* local of the last round
  competitive_bid,    \* local of the last round
  reward,             \* local of the last round (-1 before the first)
  update_log,         \* history: the (arm, reward) pairs passed to UCB1.update
  select_log          \* history: the values returned by UCB1.select_arm

vars == <<pc, players, kinds, ctor_args, entry, n_rounds, strategies,
          counts, values, i, chosen_strategy_idx, bid, competitive_bid,
          reward, update_log, select_log>>

\* ------------------------------------------------------------ arithmetic
RECURSIVE GCD(_, _)
GCD(a, b) == IF b = 0 THEN a ELSE GCD(b, a % b)

Rat(n, d) == LET g == GCD(n, d) IN IF g = 0 THEN <<0, 1>> ELSE <<n \div g, d \div g>>
RatMul(x, y) == Rat(x[1] * y[1], x[2] * y[2])
RatAdd(x, y) == Rat(x[1] * y[2] + y[1] * x[2], x[2] * y[2])

RECURSIVE SumSeq(_)
SumSeq(s) == IF s = <<>> THEN 0 ELSE Head(s) + SumSeq(Tail(s))

\* max(s) of a non-empty list
RECURSIVE MaxFrom(_, _, _)
MaxFrom(s, k, best) ==
  IF k > Len(s) THEN best
  ELSE MaxFrom(s, k + 1, IF s[k] > best THEN s[k] ELSE best)
MaxSeq(s) == MaxFrom(s, 2, s[1])

\* list.index(x): position of the first element equal to x (0-based)
RECURSIVE IndexFrom(_, _, _)
IndexFrom(s, x, k) == IF s[k + 1] = x THEN k ELSE IndexFrom(s, x, k + 1)
ListIndex(s, x) == IndexFrom(s, x, 0)

\* s.index(max(s))
IndexOfMax(s) == ListIndex(s, MaxSeq(s))

\* floor(sqrt(x)) by Newton's iteration from a guess g >= sqrt(x)
RECURSIVE SqrtFrom(_, _)
SqrtFrom(x, g) ==
  LET h == (g + x \div g) \div 2
  IN IF h >= g THEN g ELSE SqrtFrom(x, h)
ISqrt(x) == IF x = 0 THEN 0 ELSE SqrtFrom(x, 32767)

\* math.log(n) in millionths, n = 1..16
LogMicro(n) ==
  CASE n = 1 -> 0        [] n = 2 -> 693147   [] n = 3 -> 1098612
    [] n = 4 -> 1386294  [] n = 5 -> 1609437  [] n = 6 -> 1791759
    [] n = 7 -> 1945910  [] n = 8 -> 2079441  [] n = 9 -> 2197224
    [] n = 10 -> 2302585 [] n = 11 -> 2397895 [] n = 12 -> 2484906
    [] n = 13 -> 2564949 [] n = 14 -> 2639057 [] n = 15 -> 2708050
    [] n = 16 -> 2772588

\* Line 93 builds the mean of an arm in double arithmetic, reward by reward:
\* for the same count n and the same number p of rewards 1 the double still
\* depends on the order of the rewards once n >= 6.  RoundingSplits(n, p, t)
\* is TRUE when two such doubles stay different after line 84 has added
\* sqrt(2 * log(t) / n), so that max() tells two arms with the same exact
\* mean apart (every case with t <= 16).
RoundingSplits(n, p, t) ==
  \/ (n = 6 /\ p = 3 /\ t \in {12, 13, 14, 16})
  \/ (n = 7 /\ p = 3 /\ t = 14)
  \/ (n = 7 /\ p \in {5, 6} /\ t \in {15, 16})

\* ------------------------------------------------------------ strategies
\* BaseBiddingStrategy.__init__ sets players and acquired_players and
\* nothing else: the object has no remaining_budget attribute.
BaseInit(kind) ==
  [kind |-> kind,
   acquired_players |-> <<>>,
   has_remaining_budget |-> FALSE,
   remaining_budget |-> 0,
   epsilon |-> 0,
   exploitation_factor |-> 0,
   initial_bid_factor |-> 0,
   bid_history |-> <<>>]

\* Positional parameters each constructor accepts after `players`.
MaxArgs(kind) ==
  CASE kind = "EpsilonGreedy" -> 2
    [] kind = "Reactive" -> 1
    [] OTHER -> 0

\* Kind(players, *args): TRUE when Python raises TypeError.
ConstructRaises(kind, args) == Len(args) > MaxArgs(kind)

\* Kind(players, *args); a real argument a arrives as the factor a*100.
Construct(kind, args) ==
  CASE kind = "EpsilonGreedy" ->
         [BaseInit(kind) EXCEPT
            !.epsilon = IF Len(args) >= 1 THEN args[1] * 100 ELSE DefaultEpsilon,
            !.exploitation_factor =
               IF Len(args) >= 2 THEN args[2] * 100 ELSE DefaultExploitationFactor]
    [] kind = "Reactive" ->
         [BaseInit(kind) EXCEPT
            !.initial_bid_factor =
               IF Len(args) >= 1 THEN args[1] * 100 ELSE DefaultInitialBidFactor]
    [] OTHER -> BaseInit(kind)

\* number of acquired players of the given role
RECURSIVE RoleCount(_, _, _)
RoleCount(data, acquired, role) ==
  IF acquired = <<>> THEN 0
  ELSE (IF data[Head(acquired) + 1].role = role THEN 1 ELSE 0)
       + RoleCount(data, Tail(acquired), role)

can_acquire(data, s, player_index) ==
  LET player_role == data[player_index + 1].role
      current_role_count == RoleCount(data, s.acquired_players, player_role)
  IN current_role_count < role_requirements[player_role]

EpsilonGreedyBid_le(data, s, player_index, draw, fraction) ==
  LET player_value == data[player_index + 1].value
  IN IF draw <= s.epsilon THEN player_value * fraction
     ELSE player_value * s.exploitation_factor

EpsilonGreedyBid(data, s, player_index, draw, fraction) ==
  LET player_value == data[player_index + 1].value
  IN IF draw < s.epsilon THEN player_value * fraction
     ELSE player_value * s.exploitation_factor

ReactiveBid(data, s, player_index) ==
  LET player_value == data[player_index + 1].value
  IN IF s.bid_history = <<>> THEN player_value * s.initial_bid_factor
     ELSE LET avg_bid == SumSeq(s.bid_history) \div Len(s.bid_history)
          IN avg_bid + ReactiveStep * player_value

ValueBasedBid_lp(data, s, player_index) == data[player_index + 1].value * LPFactor

ValueBasedBid(data, s, player_index) == data[player_index + 1].value * ValueBasedFactor

LPBid_roster(data, s, player_index) ==
  LPFactor * data[player_index + 1].value - 100 * Len(s.acquired_players)

LPBid(data, s, player_index) == LPFactor * data[player_index + 1].value

UngatedBid(data, s, player_index, draw, fraction) ==
  CASE s.kind = "EpsilonGreedy" -> EpsilonGreedyBid(data, s, player_index, draw, fraction)
    [] s.kind = "Reactive" -> ReactiveBid(data, s, player_index)
    [] s.kind = "ValueBased" -> ValueBasedBid(data, s, player_index)
    [] OTHER -> LPBid(data, s, player_index)

compute_bid_nogate(data, s, player_index, draw, fraction) ==
  UngatedBid(data, s, player_index, draw, fraction)

\* compute_bid of the four classes: the gate, then the class's rule
compute_bid(data, s, player_index, draw, fraction) ==
  IF ~can_acquire(data, s, player_index) THEN 0
  ELSE UngatedBid(data, s, player_index, draw, fraction)

\* --------------------------------------------------------------- bandit
\* [0] * len(strategies)
Zeros(n) == [k \in 1..n |-> 0]
ZeroValues(n) == [k \in 1..n |-> <<0, 1>>]

\* values[a] + math.sqrt((2 * math.log(total_counts)) / counts[a]), in 1/10000
ucb(c, v, a, total_counts) ==
  (v[a + 1][1] * 10000) \div v[a + 1][2]
  + ISqrt((2 * LogMicro(total_counts) * 100) \div c[a + 1])

\* the list comprehension of select_arm, arm k onwards
RECURSIVE UcbFrom(_, _, _, _)
UcbFrom(c, v, k, total_counts) ==
  IF k >= Len(c) THEN <<>>
  ELSE <<ucb(c, v, k, total_counts)>> \o UcbFrom(c, v, k + 1, total_counts)

ucb_values(c, v) == UcbFrom(c, v, 0, SumSeq(c))

\* the for loop of select_arm: the first arm with count 0, or -1
RECURSIVE FirstZero(_, _)
FirstZero(c, k) ==
  IF k >= Len(c) THEN -1
  ELSE IF c[k + 1] = 0 THEN k ELSE FirstZero(c, k + 1)

RECURSIVE LastIndexFrom(_, _, _)
LastIndexFrom(s, x, k) == IF s[k + 1] = x THEN k ELSE LastIndexFrom(s, x, k - 1)

\* arms after `first` that hold the same count and the same exact mean as
\* `first` and whose doubles the rounding can put above it
RECURSIVE SplitFrom(_, _, _, _)
SplitFrom(c, v, first, k) ==
  IF k >= Len(c) THEN {}
  ELSE (IF /\ c[k + 1] = c[first + 1]
           /\ v[k + 1] = v[first + 1]
           /\ RoundingSplits(c[k + 1], (v[k + 1][1] * c[k + 1]) \div v[k + 1][2], SumSeq(c))
        THEN {k} ELSE {})
       \cup SplitFrom(c, v, first, k + 1)

select_arm_lastmax(strats, c, v) ==
  LET z == FirstZero(c, 0)
  IN IF z >= 0 THEN {z}
     ELSE LET u == ucb_values(c, v) IN {LastIndexFrom(u, MaxSeq(u), Len(u) - 1)}

select_arm_noexplore(strats, c, v) ==
  IF SumSeq(c) = 0 THEN {0}
  ELSE {IndexOfMax(ucb_values([k \in 1..Len(c) |-> IF c[k] = 0 THEN 1 ELSE c[k]], v))}

\* UCB1.select_arm: the arms the call can return.  The first arm with count
\* 0; else ucb_values.index(max(ucb_values)), which is the first arm of
\* maximal score unless the rounding of the doubles lifts a later arm of the
\* same exact score above it.
select_arm(strats, c, v) ==
  LET z == FirstZero(c, 0)
  IN IF z >= 0 THEN {z}
     ELSE LET first == IndexOfMax(ucb_values(c, v))
          IN {first} \cup SplitFrom(c, v, first, first + 1)

update_nocount(c, v, chosen_arm, rw) ==
  LET n == c[chosen_arm + 1] + 1
      value == v[chosen_arm + 1]
  IN [counts |-> c,
      values |-> [v EXCEPT ![chosen_arm + 1] =
                    RatAdd(RatMul(Rat(n - 1, n), value), RatMul(Rat(1, n), <<rw, 1>>))]]

update_spill(c, v, chosen_arm, rw) ==
  LET n == c[chosen_arm + 1] + 1
      value == v[chosen_arm + 1]
  IN [counts |-> [k \in 1..Len(c) |-> c[k] + 1],
      values |-> [v EXCEPT ![chosen_arm + 1] =
                    RatAdd(RatMul(Rat(n - 1, n), value), RatMul(Rat(1, n), <<rw, 1>>))]]

update_halfblend(c, v, chosen_arm, rw) ==
  LET n == c[chosen_arm + 1] + 1
      value == v[chosen_arm + 1]
  IN [counts |-> [c EXCEPT ![chosen_arm + 1] = n],
      values |-> [v EXCEPT ![chosen_arm + 1] =
                    IF n = 1 THEN <<rw, 1>>
                    ELSE RatAdd(RatMul(<<1, 2>>, value), RatMul(<<1, 2>>, <<rw, 1>>))]]

\* UCB1.update: counts[chosen_arm] += 1, then the running average
update(c, v, chosen_arm, rw) ==
  LET n == c[chosen_arm + 1] + 1
      value == v[chosen_arm + 1]
  IN [counts |-> [c EXCEPT ![chosen_arm + 1] = n],
      values |-> [v EXCEPT ![chosen_arm + 1] =
                    RatAdd(RatMul(Rat(n - 1, n), value), RatMul(Rat(1, n), <<rw, 1>>))]]

\* ----------------------------------------------------------- round loop
\* for i in range(n_rounds)
LoopContinues_clamped(k, rounds, data) == k < rounds /\ k < Len(data)
LoopContinues(k, rounds, data) == k < rounds

\* historical_data[player_index] raises IndexError past the end
IndexInRange(data, player_index) == player_index < Len(data)

\* reward = 1 if bid > competitive_bid else 0
Reward(b, comp) == IF b > comp THEN 1 ELSE 0

Pools == UNION { [1..n -> PlayerKinds] : n \in 0..MaxPool }

\* n_rounds handed to warm_start_simulation: None (the pool's length), one
\* less, or one more than the pool holds
NRounds(data) == { n \in (Len(data) - 1)..(Len(data) + 1) : n >= 0 }

\* Positional arguments after `players` in the constructor calls: none (the
\* signatures' defaults), initial_budget (the module's calls), or 0 (an
\* EpsilonGreedy that never explores).
CtorArgs == {<<>>, <<initial_budget>>, <<0>>}

\* How the code is entered.  "script": the module is run, lines 141-163 in
\* order (with the strategy list and the constructor arguments as inputs).
\* "call": a caller builds the strategies and UCB1(strategies) with the
\* constructors and calls warm_start_simulation.
Entries == {"script", "call"}

\* The inputs of a run.
Init ==
  /\ pc = "construct"
  /\ players \in Pools
  /\ kinds \in ArmLists
  /\ ctor_args \in CtorArgs
  /\ entry \in Entries
  /\ n_rounds \in NRounds(players)
  /\ strategies = <<>>
  /\ counts = <<>>
  /\ values = <<>>
  /\ i = 0
  /\ chosen_strategy_idx = -1
  /\ bid = 0
  /\ competitive_bid = 0
  /\ reward = -1
  /\ update_log = <<>>
  /\ select_log = <<>>

\* the strategy list; evaluating it raises TypeError at the first constructor
\* that rejects its arguments
BuildStrategies ==
  /\ pc = "construct"
  /\ IF \E k \in 1..Len(kinds) : ConstructRaises(kinds[k], ctor_args)
     THEN /\ pc' = "TypeError"
          /\ UNCHANGED strategies
     ELSE /\ pc' = IF entry = "script" THEN "report" ELSE "new_ucb1"
          /\ strategies' = [k \in 1..Len(kinds) |-> Construct(kinds[k], ctor_args)]
  /\ UNCHANGED <<players, kinds, ctor_args, entry, n_rounds, counts, values, i,
                 chosen_strategy_idx, bid, competitive_bid, reward,
                 update_log, select_log>>

\* the module's loop printing strategy.remaining_budget of each strategy: the
\* first strategy without the attribute raises AttributeError
ReportBudgets ==
  /\ pc = "report"
  /\ pc' = IF \E k \in 1..Len(strategies) : ~strategies[k].has_remaining_budget
           THEN "AttributeError158"
           ELSE "new_ucb1"
  /\ UNCHANGED <<players, kinds, ctor_args, entry, n_rounds, strategies, counts,
                 values, i, chosen_strategy_idx, bid, competitive_bid, reward,
                 update_log, select_log>>

\* UCB1(strategies), then warm_start_simulation is entered
NewUCB1 ==
  /\ pc = "new_ucb1"
  /\ pc' = "run"
  /\ counts' = Zeros(Len(strategies))
  /\ values' = ZeroValues(Len(strategies))
  /\ UNCHANGED <<players, kinds, ctor_args, entry, n_rounds, strategies, i,
                 chosen_strategy_idx, bid, competitive_bid, reward,
                 update_log, select_log>>

\* the bids compute_bid can return, over the outcomes of its random draws
BidOutcomes(data, s, player_index) ==
  { compute_bid(data, s, player_index, draw, fraction) :
      draw \in Draws, fraction \in ExploreFractions }

append_player_twice(s, player_index) ==
  [s EXCEPT !.acquired_players = Append(Append(@, player_index), player_index)]

append_player_next(s, player_index) ==
  [s EXCEPT !.acquired_players = Append(@, player_index + 1)]

\* chosen_strategy.acquired_players.append(player_index)
append_player(s, player_index) ==
  [s EXCEPT !.acquired_players = Append(@, player_index)]

\* one iteration of the loop body of warm_start_simulation.  On a win the
\* player is appended and then remaining_budget -= cost is executed, which
\* raises AttributeError on a strategy without the attribute.
Round ==
  /\ pc = "run"
  /\ LoopContinues(i, n_rounds, players)
  /\ IndexInRange(players, i)
  /\ \E cf \in CompFactors :
     \E arm \in select_arm(strategies, counts, values) :
     \E b \in BidOutcomes(players, strategies[arm + 1], i) :
     \E rw \in {Reward(b, players[i + 1].value * cf)} :
     \E u \in {update(counts, values, arm, rw)} :
       LET player_index == i
           chosen_strategy == strategies[arm + 1]
       IN /\ chosen_strategy_idx' = arm
          /\ competitive_bid' = players[player_index + 1].value * cf
          /\ bid' = b
          /\ reward' = rw
          /\ select_log' = Append(select_log, [arm |-> arm, at |-> Len(update_log)])
          /\ update_log' = Append(update_log, [arm |-> arm, reward |-> rw])
          /\ counts' = u.counts
          /\ values' = u.values
          /\ IF rw = 1
             THEN IF chosen_strategy.has_remaining_budget
                  THEN /\ strategies' =
                            [strategies EXCEPT
                               ![arm + 1] =
                                  [append_player(@, player_index) EXCEPT
                                     !.remaining_budget =
                                        @ - players[player_index + 1].cost]]
                       /\ i' = i + 1
                       /\ pc' = pc
                  ELSE /\ strategies' =
                            [strategies EXCEPT
                               ![arm + 1] = append_player(@, player_index)]
                       /\ i' = i
                       /\ pc' = "AttributeError"
             ELSE /\ strategies' = strategies
                  /\ i' = i + 1
                  /\ pc' = pc
  /\ UNCHANGED <<players, kinds, ctor_args, entry, n_rounds>>

\* the iteration whose historical_data[player_index] is past the end
RoundIndexError ==
  /\ pc = "run"
  /\ LoopContinues(i, n_rounds, players)
  /\ ~IndexInRange(players, i)
  /\ pc' = "IndexError"
  /\ UNCHANGED <<players, kinds, ctor_args, entry, n_rounds, strategies,
                 counts, values, i, chosen_strategy_idx, bid, competitive_bid,
                 reward, update_log, select_log>>

\* range(n_rounds) is exhausted: the function returns
Finish ==
  /\ pc = "run"
  /\ ~LoopContinues(i, n_rounds, players)
  /\ pc' = "done"
  /\ UNCHANGED <<players, kinds, ctor_args, entry, n_rounds, strategies,
                 counts, values, i, chosen_strategy_idx, bid, competitive_bid,
                 reward, update_log, select_log>>

Next == BuildStrategies \/ ReportBudgets \/ NewUCB1 \/ Round \/ RoundIndexError \/ Finish

Spec == Init /\ [][Next]_vars

\* ------------------------------------------- the bandit driven directly
\* Twelve updates after which both arms have count 6 and mean 1/2, reached
\* through different orders of the rewards: the code's doubles are 0.5 and
\* 0.5000000000000001.
TieReplay ==
  << [arm |-> 0, reward |-> 0], [arm |-> 0, reward |-> 0], [arm |-> 0, reward |-> 0],
     [arm |-> 0, reward |-> 1], [arm |-> 0, reward |-> 1], [arm |-> 0, reward |-> 1],
     [arm |-> 1, reward |-> 0], [arm |-> 1, reward |-> 0], [arm |-> 1, reward |-> 1],
     [arm |-> 1, reward |-> 1], [arm |-> 1, reward |-> 1], [arm |-> 1, reward |-> 0] >>

\* the bandit after the update calls of log, from counts c and values v
RECURSIVE Replay(_, _, _)
Replay(log, c, v) ==
  IF log = <<>> THEN [counts |-> c, values |-> v]
  ELSE LET u == update(c, v, Head(log).arm, Head(log).reward)
       IN Replay(Tail(log), u.counts, u.values)

\* A UCB1 over default-constructed strategies, fresh or after the updates of
\* TieReplay, then any sequence of select_arm() and update(arm, reward) calls
\* with reward in {0, 1}.
InitUCB ==
  /\ pc = "bandit"
  /\ players = <<>>
  /\ ctor_args = <<>>
  /\ entry = "call"
  /\ n_rounds = 0
  /\ \/ /\ kinds \in ArmLists
        /\ update_log = <<>>
     \/ /\ kinds = <<"EpsilonGreedy", "Reactive">>
        /\ update_log = TieReplay
  /\ strategies = [k \in 1..Len(kinds) |-> Construct(kinds[k], <<>>)]
  /\ counts = Replay(update_log, Zeros(Len(kinds)), ZeroValues(Len(kinds))).counts
  /\ values = Replay(update_log, Zeros(Len(kinds)), ZeroValues(Len(kinds))).values
  /\ i = 0
  /\ chosen_strategy_idx = -1
  /\ bid = 0
  /\ competitive_bid = 0
  /\ reward = -1
  /\ select_log = <<>>

\* calls made since the initial state
CallsMade ==
  Len(update_log) + Len(select_log)
    - (IF Len(update_log) >= Len(TieReplay) THEN Len(TieReplay) ELSE 0)

CallSelectArm ==
  /\ pc = "bandit"
  /\ CallsMade < MaxUpdates
  /\ \E arm \in select_arm(strategies, counts, values) :
       /\ chosen_strategy_idx' = arm
       /\ select_log' = Append(select_log, [arm |-> arm, at |-> Len(update_log)])
  /\ UNCHANGED <<pc, players, kinds, ctor_args, entry, n_rounds, strategies,
                 counts, values, i, bid, competitive_bid, reward, update_log>>

\* the table of math.log ends at 16 updates
CallUpdate ==
  /\ pc = "bandit"
  /\ CallsMade < MaxUpdates
  /\ SumSeq(counts) < 16
  /\ \E arm \in 0..(Len(counts) - 1), rw \in {0, 1} :
     \E u \in {update(counts, values, arm, rw)} :
          /\ counts' = u.counts
          /\ values' = u.values
          /\ update_log' = Append(update_log, [arm |-> arm, reward |-> rw])
  /\ UNCHANGED <<pc, players, kinds, ctor_args, entry, n_rounds, strategies,
                 i, chosen_strategy_idx, bid, competitive_bid, reward, select_log>>

NextUCB == CallSelectArm \/ CallUpdate

SpecUCB == InitUCB /\ [][NextUCB]_vars

\* ====================================================== checked properties
Arms == 0..(Len(counts) - 1)
PlayerIndices == 0..(Len(players) - 1)

\* players of role r held in the list acq, counted as a set of positions
Held(acq, r) == Cardinality({ j \in 1..Len(acq) : players[acq[j] + 1].role = r })

\* state of the strategy in position k of a strategy list
Full(strats, k, r) == Held(strats[k].acquired_players, r) >= role_requirements[r]

\* the round that just ended auctioned player i-1 (a crashed round: player i)
LastPlayer == IF pc = "AttributeError" THEN i ELSE i - 1

\* C1: for every strategy and every role, the number of acquired players of
\* that role never exceeds role_requirements[role].
C1_RoleCaps ==
  \A k \in 1..Len(strategies) : \A r \in Roles :
    Held(strategies[k].acquired_players, r) <= role_requirements[r]

\* a strategy has bought the goalkeeper its roster allows
C1_Witness ==
  /\ pc = "AttributeError"
  /\ reward = 1
  /\ players[i + 1].role = "goalkeeper"
  /\ Held(strategies[chosen_strategy_idx + 1].acquired_players, "goalkeeper")
       = role_requirements["goalkeeper"]

\* C2: once a strategy's count for a role has reached the requirement, in
\* every later state can_acquire is false and compute_bid is 0 for every
\* player of that role, whatever the variant, its parameters and the draws.
C2_Gate ==
  \A k \in 1..Len(strategies) : \A p \in PlayerIndices :
    Full(strategies, k, players[p + 1].role) =>
      /\ ~can_acquire(players, strategies[k], p)
      /\ \A draw \in Draws, fraction \in ExploreFractions :
           compute_bid(players, strategies[k], p, draw, fraction) = 0

C2_FullStaysFull ==
  \A k \in 1..Len(strategies) : \A r \in Roles :
    Full(strategies, k, r) => Full(strategies', k, r)

C2_FullRoleGate == []C2_Gate /\ [][C2_FullStaysFull]_vars

\* a strategy that is not ValueBased holds its goalkeeper, and the pool has a
\* later goalkeeper that it cannot acquire and bids 0 on
C2_Witness ==
  /\ pc = "AttributeError"
  /\ strategies[chosen_strategy_idx + 1].kind # "ValueBased"
  /\ Held(strategies[chosen_strategy_idx + 1].acquired_players, "goalkeeper") = 1
  /\ \E p \in PlayerIndices :
       /\ p > i
       /\ players[p + 1].role = "goalkeeper"
       /\ ~can_acquire(players, strategies[chosen_strategy_idx + 1], p)
       /\ BidOutcomes(players, strategies[chosen_strategy_idx + 1], p) = {0}

\* C3: after i completed rounds the counts sum to i, and each arm's count is
\* the number of times select_arm returned it.
C3_CountsSum ==
  pc \in {"run", "done", "IndexError"} =>
    /\ SumSeq(counts) = i
    /\ \A a \in Arms :
         counts[a + 1] = Cardinality({ j \in 1..Len(select_log) : select_log[j].arm = a })

C3_Witness ==
  /\ pc = "done"
  /\ i >= 3
  /\ Len(counts) >= 2
  /\ \A a \in Arms : counts[a + 1] >= 1

\* rewards passed to update for arm a
UpdatesOf(a) == { j \in 1..Len(update_log) : update_log[j].arm = a }
RewardsOf(a) == Cardinality({ j \in UpdatesOf(a) : update_log[j].reward = 1 })

\* C4: after any sequence of update(arm, reward) calls with rewards in {0,1},
\* values[a] * counts[a] is the sum of the rewards passed for a, values[a]
\* lies in [0,1], and an arm never updated has value 0.
C4_MeanReward ==
  \A a \in Arms :
    LET n == Cardinality(UpdatesOf(a))
        v == values[a + 1]
    IN /\ counts[a + 1] = n
       /\ v[2] >= 1
       /\ 0 <= v[1] /\ v[1] <= v[2]
       /\ v[1] * n = RewardsOf(a) * v[2]
       /\ n = 0 => v[1] = 0

\* an arm with three or more updates and a mean strictly between 0 and 1,
\* next to an arm never updated
C4_Witness ==
  /\ pc = "bandit"
  /\ \E a \in Arms : /\ counts[a + 1] >= 3
                     /\ RewardsOf(a) = 2
                     /\ values[a + 1] = <<2, counts[a + 1]>>
  /\ \E a \in Arms : counts[a + 1] = 0 /\ values[a + 1] = <<0, 1>>

\* C5: in the round loop from a fresh bandit with k arms, the j-th call of
\* select_arm returns j-1 for j = 1..k, whatever the rewards.
C5_ForcedExploration ==
  \A j \in 1..Len(select_log) : j <= Len(counts) => select_log[j].arm = j - 1

\* four arms explored in order, one round each, the fourth round a win
C5_Witness ==
  /\ pc = "AttributeError"
  /\ Len(counts) = 4
  /\ Len(select_log) = 4
  /\ update_log[4].reward = 1
  /\ \A j \in 1..4 : select_log[j].arm = j - 1

\* a select_arm call whose bandit state is still the current one
Fresh(e) == e.at = Len(update_log)

\* number of rewards 1 behind the mean of arm a
Ones(a) == (values[a + 1][1] * counts[a + 1]) \div values[a + 1][2]

\* C6: when every arm has count >= 1, select_arm returns an arm of maximal
\* ucb score and, among those, the lowest index (two arms of the same exact
\* score whose doubles differ do not have equal scores in the code); with
\* counts [1,1,1] and means [1,0,1] it returns 0.
C6_ArgMax ==
  \A j \in 1..Len(select_log) :
    (Fresh(select_log[j]) /\ \A a \in Arms : counts[a + 1] >= 1) =>
      LET chosen == select_log[j].arm
          total_counts == SumSeq(counts)
      IN /\ \A a \in Arms :
              ucb(counts, values, a, total_counts)
                <= ucb(counts, values, chosen, total_counts)
         /\ \A a \in Arms :
              a < chosen =>
                \/ ucb(counts, values, a, total_counts)
                     < ucb(counts, values, chosen, total_counts)
                \/ /\ counts[a + 1] = counts[chosen + 1]
                   /\ values[a + 1] = values[chosen + 1]
                   /\ RoundingSplits(counts[chosen + 1], Ones(chosen), total_counts)
         /\ (counts = <<1, 1, 1>> /\ values = << <<1, 1>>, <<0, 1>>, <<1, 1>> >>)
              => chosen = 0

C6_Witness ==
  /\ pc = "bandit"
  /\ counts = <<1, 1, 1>>
  /\ values = << <<1, 1>>, <<0, 1>>, <<1, 1>> >>
  /\ select_log # <<>>
  /\ Fresh(select_log[Len(select_log)])
  /\ select_log[Len(select_log)].arm = 0

\* a step that is a round of the loop (its update has been logged)
RoundStep == update_log' # update_log

\* C7: a round won by strategy S on player P completes with P appended last
\* to S.acquired_players and S's remaining budget lowered by P's cost.
C7_WinUpdatesRoster ==
  [][ (RoundStep /\ reward' = 1) =>
        LET k == chosen_strategy_idx' + 1
        IN /\ pc' = "run"
           /\ i' = i + 1
           /\ strategies'[k].acquired_players =
                Append(strategies[k].acquired_players, i)
           /\ strategies'[k].has_remaining_budget
           /\ strategies'[k].remaining_budget =
                strategies[k].remaining_budget - players[i + 1].cost
           /\ (strategies[k].acquired_players = <<>> =>
                 strategies'[k].remaining_budget = initial_budget - players[i + 1].cost)
    ]_vars

\* C8: every variant constructed with (players, initial_budget) is built:
\* no TypeError, an empty roster, remaining budget = initial_budget, and the
\* variant parameters keep their own values.
C8_ConstructWithBudget ==
  ctor_args = <<initial_budget>> =>
    /\ pc # "TypeError"
    /\ pc \in {"report", "new_ucb1"} =>
         \A k \in 1..Len(strategies) :
           /\ strategies[k].acquired_players = <<>>
           /\ strategies[k].has_remaining_budget
           /\ strategies[k].remaining_budget = initial_budget
           /\ strategies[k].kind = "EpsilonGreedy" =>
                /\ strategies[k].epsilon = DefaultEpsilon
                /\ strategies[k].exploitation_factor = DefaultExploitationFactor
           /\ strategies[k].kind = "Reactive" =>
                strategies[k].initial_bid_factor = DefaultInitialBidFactor

\* C9: with n_rounds > len(pool) the round of index len(pool) raises
\* IndexError and aborts: the run never returns normally, never goes past the
\* pool and never reuses a player.
C9_Inv ==
  n_rounds > Len(players) =>
    /\ pc # "done"
    /\ i <= Len(players)
    /\ pc = "IndexError" => i = Len(players)
    /\ \A k \in 1..Len(strategies) :
         \A j \in 1..Len(strategies[k].acquired_players) :
           /\ strategies[k].acquired_players[j] < Len(players)
           /\ \A h \in 1..(j - 1) :
                strategies[k].acquired_players[h] # strategies[k].acquired_players[j]

C9_Step ==
  (pc = "run" /\ n_rounds > Len(players) /\ i = Len(players)) =>
     (pc' = "IndexError" /\ counts' = counts /\ strategies' = strategies)

C9_IndexError == []C9_Inv /\ [][C9_Step]_vars

C9_Witness ==
  /\ pc = "IndexError"
  /\ Len(players) >= 2
  /\ i = Len(players)
  /\ SumSeq(counts) = Len(players)

\* C10: in every round reward is 1 exactly when bid > competitive_bid (a tie
\* is a loss), and the acquisition update (the player appended to the chosen
\* strategy's roster and its cost subtracted from the remaining budget) is
\* applied in that round exactly when reward is 1; no other strategy changes.
C10_RewardRule ==
  [][ RoundStep =>
        LET k == chosen_strategy_idx' + 1
            applied ==
              /\ strategies'[k].acquired_players =
                   Append(strategies[k].acquired_players, i)
              /\ strategies'[k].has_remaining_budget
              /\ strategies'[k].remaining_budget =
                   strategies[k].remaining_budget - players[i + 1].cost
              /\ pc' # "AttributeError"
        IN /\ reward' \in {0, 1}
           /\ reward' = 1 <=> bid' > competitive_bid'
           /\ reward' = 1 <=> applied
           /\ reward' = 0 => strategies' = strategies
           /\ \A h \in 1..Len(strategies) : h # k => strategies'[h] = strategies[h]
    ]_vars

\* a configuration the design rejects: no players, a role outside the four
\* fixed roles, or a non-positive initial budget
InvalidConfiguration ==
  \/ Len(players) <= 0
  \/ \E k \in 1..Len(players) : players[k].role \notin Roles
  \/ initial_budget <= 0

\* C11: an invalid configuration is rejected before anything runs: the
\* program never enters the round loop, never returns normally and no round
\* changes the bandit or a strategy.
C11_ConfigurationRejected ==
  InvalidConfiguration =>
    /\ pc \notin {"run", "done"}
    /\ update_log = <<>>
    /\ select_log = <<>>

\* C12: a round changes only the count and mean of the chosen arm and, exactly
\* when it is won, the chosen strategy's acquired_players and remaining
\* budget; a lost round changes no strategy; the other arms, the other
\* strategies and the player pool are never changed.
C12_RoundFrame ==
  [][ RoundStep =>
        LET k == chosen_strategy_idx' + 1
        IN /\ players' = players
           /\ Len(counts') = Len(counts) /\ Len(values') = Len(values)
           /\ Len(strategies') = Len(strategies)
           /\ \A h \in 1..Len(counts) :
                h # k => (counts'[h] = counts[h] /\ values'[h] = values[h])
           /\ counts'[k] = counts[k] + 1
           /\ \A h \in 1..Len(strategies) : h # k => strategies'[h] = strategies[h]
           /\ reward' = 0 => strategies' = strategies
           /\ reward' = 1 => strategies'[k].acquired_players # strategies[k].acquired_players
           /\ strategies'[k] =
                [strategies[k] EXCEPT
                   !.acquired_players = strategies'[k].acquired_players,
                   !.remaining_budget = strategies'[k].remaining_budget]
    ]_vars

\* a won round next to arms that already have counts and means
C12_Witness ==
  /\ pc = "AttributeError"
  /\ reward = 1
  /\ Len(counts) >= 3
  /\ strategies[chosen_strategy_idx + 1].acquired_players = <<i>>
  /\ \A h \in 1..Len(counts) : counts[h] >= 1
  /\ \A h \in 1..Len(strategies) :
       h # chosen_strategy_idx + 1 =>
         (values[h] = <<0, 1>> /\ strategies[h].acquired_players = <<>>)

\* C13: only the first bid Reactive ever computes is value * initial_bid_factor;
\* a later bid on a player whose role is not full is
\* value * (avg / value + 0.05), avg the mean of the recorded bid history.
C13_ReactiveAdapts ==
  [][ (RoundStep /\ strategies[chosen_strategy_idx' + 1].kind = "Reactive"
                 /\ can_acquire(players, strategies[chosen_strategy_idx' + 1], i)) =>
        LET s == strategies[chosen_strategy_idx' + 1]
            player_value == players[i + 1].value
        IN IF counts[chosen_strategy_idx' + 1] = 0
           THEN bid' = player_value * s.initial_bid_factor
           ELSE /\ s.bid_history # <<>>
                /\ bid' = SumSeq(s.bid_history) \div Len(s.bid_history)
                            + ReactiveStep * player_value
    ]_vars

\* C14: EpsilonGreedy with epsilon = 0 returns value * exploitation_factor for
\* every player whose role is not full, whatever random.random() draws.
C14_NoExploration ==
  /\ \A k \in 1..Len(strategies) : \A p \in PlayerIndices :
       (/\ strategies[k].kind = "EpsilonGreedy"
        /\ strategies[k].epsilon = 0
        /\ ~Full(strategies, k, players[p + 1].role)) =>
         \A draw \in Draws, fraction \in ExploreFractions :
           compute_bid(players, strategies[k], p, draw, fraction)
             = players[p + 1].value * strategies[k].exploitation_factor
  /\ (/\ pc \in {"run", "done", "AttributeError"}
      /\ chosen_strategy_idx >= 0
      /\ strategies[chosen_strategy_idx + 1].kind = "EpsilonGreedy"
      /\ strategies[chosen_strategy_idx + 1].epsilon = 0
      /\ bid # 0) =>
       bid = players[LastPlayer + 1].value
               * strategies[chosen_strategy_idx + 1].exploitation_factor

\* an EpsilonGreedy built with epsilon = 0 has bid value * 0.8 in a round
C14_Witness ==
  /\ pc \in {"run", "done"}
  /\ chosen_strategy_idx >= 0
  /\ strategies[chosen_strategy_idx + 1].kind = "EpsilonGreedy"
  /\ strategies[chosen_strategy_idx + 1].epsilon = 0
  /\ bid = players[i].value * DefaultExploitationFactor
  /\ bid > 0

\* C15: ValueBased.compute_bid(p) is 0.8 * value(p) whenever can_acquire(p),
\* in every reachable state, whatever the budget, the round and the bandit.
C15_ValueBased ==
  /\ \A k \in 1..Len(strategies) : \A p \in PlayerIndices :
       (strategies[k].kind = "ValueBased" /\ ~Full(strategies, k, players[p + 1].role)) =>
         \A draw \in Draws, fraction \in ExploreFractions :
           compute_bid(players, strategies[k], p, draw, fraction)
             = 80 * players[p + 1].value
  /\ (/\ pc \in {"run", "done", "AttributeError"}
      /\ chosen_strategy_idx >= 0
      /\ strategies[chosen_strategy_idx + 1].kind = "ValueBased"
      /\ bid # 0) =>
       bid = 80 * players[LastPlayer + 1].value

\* ValueBased has bid 0.8 * value in its third round or later
C15_Witness ==
  /\ pc \in {"run", "done"}
  /\ chosen_strategy_idx >= 0
  /\ strategies[chosen_strategy_idx + 1].kind = "ValueBased"
  /\ counts[chosen_strategy_idx + 1] >= 3
  /\ bid > 0
  /\ bid = 80 * players[i].value

\* C16: OptimalTeamCompositionLP.compute_bid(p) is 0.9 * value(p) whenever
\* can_acquire(p): it does not depend on the budget, on the other players or
\* on the roster beyond the role gate.
C16_LPConstantFactor ==
  /\ \A k \in 1..Len(strategies) : \A p \in PlayerIndices :
       (/\ strategies[k].kind = "OptimalTeamCompositionLP"
        /\ ~Full(strategies, k, players[p + 1].role)) =>
         \A draw \in Draws, fraction \in ExploreFractions :
           compute_bid(players, strategies[k], p, draw, fraction)
             = 90 * players[p + 1].value
  /\ (/\ pc \in {"run", "done", "AttributeError"}
      /\ chosen_strategy_idx >= 0
      /\ strategies[chosen_strategy_idx + 1].kind = "OptimalTeamCompositionLP"
      /\ bid # 0) =>
       bid = 90 * players[LastPlayer + 1].value

\* OptimalTeamCompositionLP holds the player it bid 0.9 * value on, and its
\* bid on a later player is 0.9 * value again
C16_Witness ==
  /\ pc = "AttributeError"
  /\ strategies[chosen_strategy_idx + 1].kind = "OptimalTeamCompositionLP"
  /\ strategies[chosen_strategy_idx + 1].acquired_players = <<i>>
  /\ bid = 90 * players[i + 1].value
  /\ \E p \in PlayerIndices :
       /\ p > i
       /\ BidOutcomes(players, strategies[chosen_strategy_idx + 1], p)
            = {90 * players[p + 1].value}

\* sum of the costs of the players in the list acq
RECURSIVE CostOf(_)
CostOf(acq) == IF acq = <<>> THEN 0 ELSE players[Head(acq) + 1].cost + CostOf(Tail(acq))

\* C17: with a valid configuration and n_rounds <= len(pool) the call of
\* warm_start_simulation always ends normally, after exactly n_rounds rounds
\* over players 0..n_rounds-1 in pool order, whatever the competitive bids and
\* the draws.
C17_NormalTermination ==
  (entry = "call" /\ n_rounds <= Len(players) /\ ~InvalidConfiguration
     /\ ctor_args = <<>>) =>
    /\ pc \in {"construct", "new_ucb1", "run", "done"}
    /\ Len(update_log) = i
    /\ i <= n_rounds
    /\ pc = "done" => i = n_rounds

\* nothing consults the remaining budget: a strategy whose role is not full
\* can acquire and bids its usual amount
C18_NoGate ==
  \A k \in 1..Len(strategies) : \A p \in PlayerIndices :
    ~Full(strategies, k, players[p + 1].role) =>
      /\ can_acquire(players, strategies[k], p)
      /\ \A draw \in Draws, fraction \in ExploreFractions :
           compute_bid(players, strategies[k], p, draw, fraction)
             = UngatedBid(players, strategies[k], p, draw, fraction)

\* a bid above the competitive bid acquires the player and lowers the
\* winner's remaining budget by the cost, below zero when the budget is
\* smaller than the cost
C18_WinLowersBudget ==
  (RoundStep /\ bid' > competitive_bid') =>
    LET k == chosen_strategy_idx' + 1
    IN /\ pc' # "AttributeError"
       /\ \E j \in 1..Len(strategies'[k].acquired_players) :
            strategies'[k].acquired_players[j] = i
       /\ strategies'[k].has_remaining_budget
       /\ strategies'[k].remaining_budget < strategies[k].remaining_budget
       /\ (strategies[k].remaining_budget < players[i + 1].cost =>
             strategies'[k].remaining_budget < 0)

\* C18: acquisition is never blocked by budget: compute_bid and the win
\* update do not consult the remaining budget, a strategy with less budget
\* than a player's cost still acquires the player, and the remaining budget
\* goes negative.
C18_NoBudgetGate == []C18_NoGate /\ [][C18_WinLowersBudget]_vars

\* C19: between rounds every strategy's remaining budget is its initial budget
\* minus the costs of its acquired players, and the number of acquired players
\* is the sum of rewards the bandit recorded for its arm.
C19_Accounting ==
  pc \in {"run", "done"} =>
    \A k \in 1..Len(strategies) :
      /\ strategies[k].has_remaining_budget
      /\ strategies[k].remaining_budget
           = initial_budget - CostOf(strategies[k].acquired_players)
      /\ values[k][1] * counts[k] = Len(strategies[k].acquired_players) * values[k][2]

\* C20: the rosters of different strategies are disjoint, each roster is
\* strictly increasing, and no roster holds an index beyond the last player
\* auctioned.
C20_RostersDisjoint ==
  \A k \in 1..Len(strategies) :
    LET acq == strategies[k].acquired_players
    IN /\ \A j \in 1..Len(acq) : 0 <= acq[j] /\ acq[j] <= LastPlayer
       /\ \A j \in 1..(Len(acq) - 1) : acq[j] < acq[j + 1]
       /\ \A h \in 1..Len(strategies) :
            h # k =>
              \A j \in 1..Len(acq) :
                \A g \in 1..Len(strategies[h].acquired_players) :
                  strategies[h].acquired_players[g] # acq[j]

\* a strategy has bought a player after the first, next to strategies with
\* empty rosters
C20_Witness ==
  /\ pc = "AttributeError"
  /\ i >= 2
  /\ Len(strategies) >= 2
  /\ strategies[chosen_strategy_idx + 1].acquired_players = <<i>>
  /\ \A h \in 1..Len(strategies) :
       h # chosen_strategy_idx + 1 => strategies[h].acquired_players = <<>>

====
